---- MODULE Spec2Model ----
(***************************************************************************)
(* A model of src/main.c: the L1 data-cache descriptor (cache_t), its      *)
(* construction and calibration (cache_init), the per-set primitives       *)
(* (cache_fill_set, cache_flush_set, cache_count_hits) and dlog2.          *)
(*                                                                         *)
(* Representation.                                                         *)
(*  - A 64-bit word (uintptr_t, size_t as the operand of dlog2) is the set *)
(*    of the positions of its one bits, a subset of 0..63, so that masks   *)
(*    and shifts keep their width.                                         *)
(*  - Sizes, counts, latencies and addresses stay far below 2^31 in every  *)
(*    state explored and are integers.                                     *)
(*  - A uint32_t is kept by its value modulo 2^32 written as an int32: the *)
(*    bit pattern 0xFFFFFFFF (2^32 - 1) is -1. cache_init stores dlog2's   *)
(*    result into int fields, where that conversion is the identity.       *)
(*  - The hardware cache is `sets`: for each set index the resident lines  *)
(*    in LRU order (head = least recently used), at most assoc of them.    *)
(***************************************************************************)
EXTENDS Integers, Sequences, FiniteSets, TLC

VARIABLES
    host,        \* what the machine is: reported geometry, latencies, noise
    phase,       \* "start", "ready" (cache_init returned 0), "failed", "freed"
    init_ret,    \* return value of cache_init (0 / -1), 1 before the call
    cache,       \* the cache_t descriptor
    sets,        \* hardware cache content, per set index, in LRU order
    last,        \* the last set operation called: [op, setno, ret, sadface, foreign]
    log,         \* its accesses in order: [kind, addr, resident, dur]
    prev,        \* the operation that returned 0 or more on the same set
                 \* just before it ("none" when there is none)
    prevForeign, \* how many tenant lines its set held when it was called
    gapSame,     \* between the two, the tenant touched that set
    gapOther,    \* between the two, the tenant touched another set
    idleSame,    \* since `last` returned, the tenant touched its set
    idleOther,   \* since `last` returned, the tenant touched another set
    tenantUsed,  \* number of tenant accesses so far
    calls,       \* number of set operations called so far
    lg           \* dlog2's frame: [pc, n, k, arg, ret]

vars == <<host, phase, init_ret, cache, sets, last, log, prev, prevForeign, gapSame, gapOther,
          idleSame, idleOther, tenantUsed, calls, lg>>

setopVars == <<last, log, prev, prevForeign, gapSame, gapOther, idleSame, idleOther,
               tenantUsed, calls>>

(***************************************************************************)
(* Bounds of the model.                                                    *)
(***************************************************************************)
MaxAssoc == 2           \* reported associativity 1 .. MaxAssoc
MaxTenantAccesses == 2  \* tenant accesses per run
MaxCalls == 2           \* set operations called per run
MaxOver == 0            \* set arguments 0 .. nsets + MaxOver
MaxSize == 8            \* hosts of SpecInit: reported size 1 .. MaxSize
MaxLine == 3            \* hosts of SpecInit: reported line size 1 .. MaxLine
MaxBaseMult == 1        \* aligned_alloc returns 1 .. MaxBaseMult alignments
MaxArg == 40            \* dlog2 arguments 0 .. MaxArg (and every 2^k)

(***************************************************************************)
(* Program constants.                                                      *)
(***************************************************************************)
WordBits == 64
NTRIALS == 1024

Bits == 0 .. (WordBits - 1)
AllOnes == Bits

RECURSIVE Pow2(_)
Pow2(e) == IF e <= 0 THEN 1 ELSE 2 * Pow2(e - 1)

\* The word of a non-negative integer below 2^31.
ToWord(n) == {b \in 0 .. 30 : (n \div Pow2(b)) % 2 = 1}

RECURSIVE SumPow2(_)
SumPow2(w) ==
    IF w = {} THEN 0
    ELSE LET b == CHOOSE x \in w : TRUE IN Pow2(b) + SumPow2(w \ {b})

\* The integer of a word below 2^31.
FromWord(w) == SumPow2(w)

WordAnd(a, b) == a \cap b
WordOr(a, b) == a \cup b
Shl(w, sh) == {b + sh : b \in w} \cap Bits
Shr(w, sh) == {b - sh : b \in w} \cap Bits

\* w - 1 modulo 2^64.
WordDec(w) ==
    IF w = {} THEN AllOnes
    ELSE LET low == CHOOSE b \in w : \A c \in w : b <= c
         IN (w \ {low}) \cup (0 .. (low - 1))

\* A shift by a count outside 0..63 is undefined: the hardware shifts by the
\* count modulo 64, a folded constant may be zero or the operand unchanged.
ShlOutcomes(w, sh) ==
    IF sh \in Bits THEN {Shl(w, sh)}
    ELSE {Shl(w, sh % WordBits), {}, w}

(***************************************************************************)
(* dlog2 (main.c 21-31), on the word of its size_t argument.               *)
(***************************************************************************)
\* return k - 1, in uint32_t: 0 - 1 is the pattern 0xFFFFFFFF, written -1.
dlog2ReturnOffByOne(kk) == kk

dlog2Return(kk) == kk - 1

RECURSIVE dlog2Loop(_, _)
dlog2Loop(n, kk) ==
    IF n # {} THEN dlog2Loop(Shr(n, 1), kk + 1) ELSE dlog2Return(kk)

dlog2(n) == dlog2Loop(n, 0)

\* The same function step by step, one action per loop iteration.
LogIdle == [pc |-> "idle", n |-> {}, k |-> 0, arg |-> {}, ret |-> 0]

LogArgs ==
    {ToWord(a) : a \in 0 .. MaxArg} \cup {{b} : b \in Bits}
        \cup {{b, c} : b \in {0, WordBits - 1}, c \in Bits}

LogCall ==
    /\ lg.pc = "call"
    /\ lg' = [lg EXCEPT !.pc = "loop", !.n = lg.arg, !.k = 0]
    /\ UNCHANGED <<host, phase, init_ret, cache, sets, setopVars>>

LogStep ==
    /\ lg.pc = "loop"
    /\ lg.n # {}
    /\ lg' = [lg EXCEPT !.n = Shr(lg.n, 1), !.k = lg.k + 1]
    /\ UNCHANGED <<host, phase, init_ret, cache, sets, setopVars>>

LogReturn ==
    /\ lg.pc = "loop"
    /\ lg.n = {}
    /\ lg' = [lg EXCEPT !.pc = "done", !.ret = dlog2Return(lg.k)]
    /\ UNCHANGED <<host, phase, init_ret, cache, sets, setopVars>>

(***************************************************************************)
(* The hardware: an assoc-way set-associative cache with LRU replacement.  *)
(* A line is <<owner, line number>>; this process's line number is its     *)
(* address divided by the line size, the tenant's lines are its own.       *)
(***************************************************************************)
HwNSets(h) ==
    LET n == h.size \div (h.line_size * h.assoc) IN IF n = 0 THEN 1 ELSE n

HwSet(h, line) == line[2] % HwNSets(h)

MyLine(h, addr) == <<"me", addr \div h.line_size>>

Range(q) == {q[i] : i \in 1 .. Len(q)}

Without(q, line) == SelectSeq(q, LAMBDA x : x # line)

Resident(ss, h, line) == line \in Range(ss[HwSet(h, line)])

\* A read of a line: it becomes the most recently used line of its set; when
\* it was not resident and the set is full, the least recently used leaves.
Touch(ss, h, line) ==
    LET s == HwSet(h, line)
        q == ss[s]
    IN  IF line \in Range(q) THEN [ss EXCEPT ![s] = Append(Without(q, line), line)]
        ELSE IF Len(q) < h.assoc THEN [ss EXCEPT ![s] = Append(q, line)]
        ELSE [ss EXCEPT ![s] = Append(Tail(q), line)]

\* clflush: the line leaves the cache.
Evict(ss, h, line) ==
    [ss EXCEPT ![HwSet(h, line)] = Without(ss[HwSet(h, line)], line)]

\* timed_read: the cycles of one read, a hit or a miss of the machine.
TimedRead(ss, h, line) == IF Resident(ss, h, line) THEN h.tHit ELSE h.tMiss

(***************************************************************************)
(* cache_init (main.c 152-203).                                            *)
(***************************************************************************)
ZeroCache ==
    [size |-> 0, line_size |-> 0, set_size |-> 0, assoc |-> 0, nsets |-> 0,
     offset_mask |-> {}, index_mask |-> {}, tag_mask |-> {},
     index_shift |-> 0, tag_shift |-> 0,
     hit_latency |-> 0, miss_latency |-> 0, hit_threshold |-> 0,
     buffer_size |-> 0, buffer |-> 0]

\* offset_mask = line_size - 1
OffsetMask(line_size) == WordDec(ToWord(line_size))

\* index_mask = (nsets - 1) << index_shift
IndexMaskNoDec(nsets, index_shift) == Shl(ToWord(nsets), index_shift)

IndexMask(nsets, index_shift) == Shl(WordDec(ToWord(nsets)), index_shift)

\* tag_mask = (~0UL) << tag_shift
TagMasks(tag_shift) == ShlOutcomes(AllOnes, tag_shift)

\* The smallest power of two that is at least n.
RECURSIVE AlignUp(_, _)
AlignUp(n, p) == IF p >= n THEN p ELSE AlignUp(n, 2 * p)

\* aligned_alloc(alignment, bytes): NULL (written 0), or a block whose base is
\* a multiple of the alignment; the C library rounds an alignment that is not
\* a power of two up to one, or refuses it with NULL.
AlignedAlloc(alignment, bytes) ==
    {0} \cup {m * AlignUp(alignment, 1) : m \in 1 .. MaxBaseMult}

\* One trial of the first loop: cache_fill then timed_read of buffer[0]. In
\* the first host.hitEvicted trials the line is evicted between the two (an
\* interrupt, the tenant) and the read is a miss.
HitTrial(acc, trial, h, line) ==
    LET filled == Touch(acc.sets, h, line)
        seen == IF trial < h.hitEvicted THEN Evict(filled, h, line) ELSE filled
    IN  [mean |-> acc.mean + TimedRead(seen, h, line), sets |-> Touch(seen, h, line)]

\* One trial of the second loop: cache_flush then timed_read of buffer[0]. In
\* the first host.missRefilled trials the line is brought back between the
\* two (a prefetch) and the read is a hit.
MissTrial(acc, trial, h, line) ==
    LET flushed == Evict(acc.sets, h, line)
        seen == IF trial < h.missRefilled THEN Touch(flushed, h, line) ELSE flushed
    IN  [mean |-> acc.mean + TimedRead(seen, h, line), sets |-> Touch(seen, h, line)]

\* for (trial = lo; trial < hi; trial++), the trials taken in order. The range
\* is halved, and the first half's sum (never negative) looked at before the
\* second half starts, only to keep the evaluation shallow.
RECURSIVE HitLoop(_, _, _, _, _)
HitLoop(lo, hi, acc, h, line) ==
    IF hi <= lo THEN acc
    ELSE IF hi - lo = 1 THEN HitTrial(acc, lo, h, line)
    ELSE LET mid == lo + ((hi - lo) \div 2)
             first == HitLoop(lo, mid, acc, h, line)
         IN  IF first.mean >= 0 THEN HitLoop(mid, hi, first, h, line) ELSE first

RECURSIVE MissLoop(_, _, _, _, _)
MissLoop(lo, hi, acc, h, line) ==
    IF hi <= lo THEN acc
    ELSE IF hi - lo = 1 THEN MissTrial(acc, lo, h, line)
    ELSE LET mid == lo + ((hi - lo) \div 2)
             first == MissLoop(lo, mid, acc, h, line)
         IN  IF first.mean >= 0 THEN MissLoop(mid, hi, first, h, line) ELSE first

\* hit_threshold = (hit_latency + miss_latency) / 2
Threshold(hit_latency, miss_latency) == (hit_latency + miss_latency) \div 2

\* memset(buffer, 0, size): every byte from addr up to end, in order. (The
\* test on the touched cache only makes the evaluation of each step complete
\* before the next one starts.)
RECURSIVE Memset(_, _, _, _)
Memset(ss, h, addr, end) ==
    IF addr < end
    THEN LET touched == Touch(ss, h, MyLine(h, addr))
         IN  IF DOMAIN touched = DOMAIN ss THEN Memset(touched, h, addr + 1, end)
             ELSE touched
    ELSE ss

\* The value cache_init returns once calibration is done (line 202).
CalibratedReturn(hit_latency, miss_latency) == 0

CacheInit ==
    /\ phase = "start"
    /\ LET size == host.size                         \* sysconf, lines 156-158
           line_size == host.line_size
           assoc == host.assoc
           set_size == line_size * assoc
           nsets == size \div set_size
           index_shift == dlog2(ToWord(line_size))
           tag_shift == dlog2(ToWord(nsets)) + index_shift
           buffer_size == size * assoc
       IN  \E tag_mask \in TagMasks(tag_shift) :
           \E buffer \in AlignedAlloc(size, buffer_size) :
             LET geo == [ZeroCache EXCEPT
                           !.size = size, !.line_size = line_size,
                           !.assoc = assoc, !.set_size = set_size,
                           !.nsets = nsets, !.index_shift = index_shift,
                           !.tag_shift = tag_shift,
                           !.offset_mask = OffsetMask(line_size),
                           !.index_mask = IndexMask(nsets, index_shift),
                           !.tag_mask = tag_mask,
                           !.buffer_size = buffer_size, !.buffer = buffer]
             IN  IF buffer = 0
                 THEN /\ cache' = geo
                      /\ init_ret' = -1
                      /\ phase' = "failed"
                      /\ sets' = sets
                 ELSE LET line == MyLine(host, buffer)
                          hit == HitLoop(0, NTRIALS, [mean |-> 0, sets |-> sets], host, line)
                          miss == MissLoop(0, NTRIALS, [mean |-> 0, sets |-> hit.sets], host, line)
                          hit_latency == hit.mean \div NTRIALS
                          miss_latency == miss.mean \div NTRIALS
                      IN  /\ cache' = [geo EXCEPT
                                 !.hit_latency = hit_latency,
                                 !.miss_latency = miss_latency,
                                 !.hit_threshold = Threshold(hit_latency, miss_latency)]
                          /\ sets' = Memset(miss.sets, host, buffer, buffer + size)
                          /\ init_ret' = CalibratedReturn(hit_latency, miss_latency)
                          /\ phase' = IF init_ret' = 0 THEN "ready" ELSE "failed"
    /\ UNCHANGED <<host, setopVars, lg>>

\* cache_deinit (main.c 208-213): free(cache->buffer), return 0.
CacheDeinit ==
    /\ phase \in {"ready", "failed"}
    /\ phase' = "freed"
    /\ UNCHANGED <<host, init_ret, cache, sets, setopVars, lg>>

(***************************************************************************)
(* The set operations (main.c 225-300). Each call is one action: this      *)
(* process runs it to completion, and the tenant's accesses fall between   *)
(* calls.                                                                  *)
(***************************************************************************)
\* if (setno >= cache->nsets) return -1;
OutOfRangeOffByOne(c, s) == s > c.nsets

OutOfRange(c, s) == s >= c.nsets

\* ptr = cache->buffer + (setno << cache->index_shift)
FirstPtr(c, s) == c.buffer + s * Pow2(c.index_shift)

\* ptr += cache->nsets << cache->index_shift
StrideOneLine(c) == Pow2(c.index_shift)

Stride(c) == c.nsets * Pow2(c.index_shift)

\* if (cache->hit_threshold >= dur) count += 1;
IsHitInverted(c, dur) == c.hit_threshold <= dur

IsHit(c, dur) == c.hit_threshold >= dur

Access(kind, p, ss, h) ==
    [kind |-> kind, addr |-> p,
     resident |-> Resident(ss, h, MyLine(h, p)),
     dur |-> IF kind = "timed_read" THEN TimedRead(ss, h, MyLine(h, p)) ELSE 0]

\* for (k = 0; k < assoc; k++) { cache_flush(ptr); ptr += stride; }
RECURSIVE FlushLoopNoAdvance(_, _, _, _, _, _)
FlushLoopNoAdvance(kk, p, ss, acc, c, h) ==
    IF kk < c.assoc
    THEN FlushLoopNoAdvance(kk + 1, p, Evict(ss, h, MyLine(h, p)),
                            Append(acc, Access("flush", p, ss, h)), c, h)
    ELSE [sets |-> ss, log |-> acc, ret |-> 0, sadface |-> FALSE]

RECURSIVE FlushLoop(_, _, _, _, _, _)
FlushLoop(kk, p, ss, acc, c, h) ==
    IF kk < c.assoc
    THEN FlushLoop(kk + 1, p + Stride(c), Evict(ss, h, MyLine(h, p)),
                   Append(acc, Access("flush", p, ss, h)), c, h)
    ELSE [sets |-> ss, log |-> acc, ret |-> 0, sadface |-> FALSE]

\* for (k = 0; k < assoc; k++) { cache_fill(ptr); ptr += stride; }
RECURSIVE FillLoop(_, _, _, _, _, _)
FillLoop(kk, p, ss, acc, c, h) ==
    IF kk < c.assoc
    THEN FillLoop(kk + 1, p + Stride(c), Touch(ss, h, MyLine(h, p)),
                  Append(acc, Access("fill", p, ss, h)), c, h)
    ELSE [sets |-> ss, log |-> acc, ret |-> 0, sadface |-> FALSE]

\* for (k = 0; k < assoc; k++) { dur = timed_read(ptr); classify;
\*     ptr += stride; if (!(ptr < buffer + buffer_size)) printf("sadface.\n"); }
RECURSIVE CountLoop(_, _, _, _, _, _, _, _)
CountLoop(kk, p, ss, acc, cnt, sad, c, h) ==
    IF kk < c.assoc
    THEN LET dur == TimedRead(ss, h, MyLine(h, p))
             next == p + Stride(c)
         IN  CountLoop(kk + 1, next, Touch(ss, h, MyLine(h, p)),
                       Append(acc, Access("timed_read", p, ss, h)),
                       IF IsHit(c, dur) THEN cnt + 1 ELSE cnt,
                       sad \/ ~(next < c.buffer + c.buffer_size), c, h)
    ELSE [sets |-> ss, log |-> acc, ret |-> cnt, sadface |-> sad]

Failed == [sets |-> sets, log |-> <<>>, ret |-> -1, sadface |-> FALSE]

cache_flush_set(c, s) ==
    IF OutOfRange(c, s) THEN Failed
    ELSE FlushLoop(0, FirstPtr(c, s), sets, <<>>, c, host)

cache_fill_set(c, s) ==
    IF OutOfRange(c, s) THEN Failed
    ELSE FillLoop(0, FirstPtr(c, s), sets, <<>>, c, host)

cache_count_hits(c, s) ==
    IF OutOfRange(c, s) THEN Failed
    ELSE CountLoop(0, FirstPtr(c, s), sets, <<>>, 0, FALSE, c, host)

SetArgs == 0 .. (cache.nsets + MaxOver)

\* The number of tenant lines resident in set s (0 when there is no such set).
Foreign(s) ==
    IF s \in DOMAIN sets
    THEN Cardinality({line \in Range(sets[s]) : line[1] = "tn"})
    ELSE 0

\* A call: its result, and the record of calls kept for the properties.
Call(op, s, r) ==
    /\ phase = "ready"
    /\ calls < MaxCalls
    /\ calls' = calls + 1
    /\ sets' = r.sets
    /\ log' = r.log
    /\ last' = [op |-> op, setno |-> s, ret |-> r.ret, sadface |-> r.sadface,
                foreign |-> Foreign(s)]
    /\ prev' = IF last.setno = s /\ last.ret >= 0 THEN last.op ELSE "none"
    /\ prevForeign' = IF prev' = "none" THEN 0 ELSE last.foreign
    /\ gapSame' = idleSame
    /\ gapOther' = idleOther
    /\ idleSame' = FALSE
    /\ idleOther' = FALSE
    /\ UNCHANGED <<host, phase, init_ret, cache, tenantUsed, lg>>

FlushSet == \E s \in SetArgs : Call("flush", s, cache_flush_set(cache, s))

FillSet == \E s \in SetArgs : Call("fill", s, cache_fill_set(cache, s))

CountHits == \E s \in SetArgs : Call("count", s, cache_count_hits(cache, s))

(***************************************************************************)
(* The other tenant: an uncoordinated process that reads lines of its own  *)
(* through the same cache, between this process's calls.                   *)
(***************************************************************************)
\* The tenant owns as many lines of each set as the set has ways.
TenantLines == {<<"tn", ln>> : ln \in 0 .. (HwNSets(host) * host.assoc - 1)}

TenantTouch ==
    /\ phase = "ready"
    /\ tenantUsed < MaxTenantAccesses
    /\ \E line \in TenantLines :
         /\ sets' = Touch(sets, host, line)
         /\ idleSame' = (idleSame \/ HwSet(host, line) = last.setno)
         /\ idleOther' = (idleOther \/ HwSet(host, line) # last.setno)
    /\ tenantUsed' = tenantUsed + 1
    /\ UNCHANGED <<host, phase, init_ret, cache, last, log, prev, prevForeign,
                   gapSame, gapOther, calls, lg>>

(***************************************************************************)
(* Hosts and initial states.                                               *)
(***************************************************************************)
\* Real L1 geometries: line size and set count powers of two, size exact.
LineSizes == {2}

SetCounts == {1, 2}

HostGeometries ==
    {[size |-> ls * ns * a, line_size |-> ls, assoc |-> a] :
        ls \in LineSizes, ns \in SetCounts, a \in 1 .. MaxAssoc}

\* Whatever sysconf may report, a size below one set included.
AnyGeometries ==
    {[size |-> sz, line_size |-> ls, assoc |-> a] :
        sz \in 1 .. MaxSize, ls \in 1 .. MaxLine, a \in 1 .. MaxAssoc}

Timing(th, tm, ev, rf) == [tHit |-> th, tMiss |-> tm, hitEvicted |-> ev, missRefilled |-> rf]

AnyTimings ==
    {Timing(t[1], t[2], ev, rf) :
        t \in {<<40, 200>>, <<120, 120>>}, ev \in {0, 1, NTRIALS}, rf \in {0, 1, NTRIALS}}

MkHost(g, t) ==
    [size |-> g.size, line_size |-> g.line_size, assoc |-> g.assoc,
     tHit |-> t.tHit, tMiss |-> t.tMiss,
     hitEvicted |-> t.hitEvicted, missRefilled |-> t.missRefilled]

NoCall == [op |-> "none", setno |-> 0, ret |-> -1, sadface |-> FALSE, foreign |-> 0]

InitOn(hosts) ==
    /\ host \in hosts
    /\ phase = "start"
    /\ init_ret = 1
    /\ cache = ZeroCache
    /\ sets = [s \in 0 .. (HwNSets(host) - 1) |-> <<>>]
    /\ last = NoCall
    /\ log = <<>>
    /\ prev = "none"
    /\ prevForeign = 0
    /\ gapSame = FALSE
    /\ gapOther = FALSE
    /\ idleSame = FALSE
    /\ idleOther = FALSE
    /\ tenantUsed = 0
    /\ calls = 0

\* Every reported geometry on a quiet machine, and every timing on one machine.
InitHosts ==
    {MkHost(g, Timing(40, 200, 0, 0)) : g \in AnyGeometries}
        \cup {MkHost([size |-> 8, line_size |-> 2, assoc |-> 2], t) : t \in AnyTimings}

InitCacheInit ==
    /\ InitOn(InitHosts)
    /\ lg = LogIdle

\* The first set operation after construction, on whatever geometry it found.
FirstCall == calls = 0 /\ (FlushSet \/ FillSet \/ CountHits)

NextCacheInit == CacheInit \/ CacheDeinit \/ FirstCall

SpecInit == InitCacheInit /\ [][NextCacheInit]_vars

InitLog ==
    /\ InitOn({MkHost([size |-> 1, line_size |-> 1, assoc |-> 1], Timing(40, 200, 0, 0))})
    /\ \E a \in LogArgs : lg = [LogIdle EXCEPT !.pc = "call", !.arg = a]

NextLog == LogCall \/ LogStep \/ LogReturn

\* dlog2 runs to completion: every enabled step of it is eventually taken.
SpecLog == InitLog /\ [][NextLog]_vars /\ WF_vars(NextLog)

\* Every real geometry on a quiet machine, and one machine too noisy to calibrate.
Hosts ==
    {MkHost(g, Timing(40, 200, 0, 0)) : g \in HostGeometries}
        \cup {MkHost([size |-> 8, line_size |-> 2, assoc |-> 2],
                     Timing(40, 200, NTRIALS, 0))}

Init ==
    /\ InitOn(Hosts)
    /\ lg = LogIdle

Next ==
    \/ CacheInit
    \/ FlushSet
    \/ FillSet
    \/ CountHits
    \/ TenantTouch

Spec == Init /\ [][Next]_vars

(***************************************************************************)
(* Properties.                                                             *)
(***************************************************************************)
IsPow2(n) == \E e \in 0 .. 30 : n = Pow2(e)

\* Timing without noise: a resident line reads at or below the threshold, a
\* line that is not resident above it.
NoiseFree == host.tHit <= cache.hit_threshold /\ cache.hit_threshold < host.tMiss

Addrs == {log[i].addr : i \in 1 .. Len(log)}

\* The index and tag fields of an address, by the descriptor's masks and shifts.
IndexField(c, addr) == FromWord(Shr(WordAnd(ToWord(addr), c.index_mask), c.index_shift))

TagField(c, addr) == FromWord(Shr(ToWord(addr), c.tag_shift))

\* The address of way kk of set s: buffer + s*line_size + kk*nsets*line_size.
WayAddr(c, s, kk) == c.buffer + s * c.line_size + kk * c.nsets * c.line_size

\* The lines of this process resident in set s.
Owned(s) == {line \in Range(sets[s]) : line[1] = "me"}

\* C1: a set operation called with setno >= nsets returns -1 and makes no
\* access (no touch, no flush, no timed read); called with setno < nsets it
\* does not fail: fill and flush return 0, count-hits a count in 0..assoc,
\* after one access per way.
C1_RangeCheck ==
    last.op # "none" =>
        /\ last.setno >= cache.nsets => (last.ret = -1 /\ log = <<>>)
        /\ last.setno < cache.nsets =>
              /\ last.ret # -1
              /\ Len(log) = cache.assoc
              /\ last.op \in {"fill", "flush"} => last.ret = 0
              /\ last.op = "count" => last.ret \in 0 .. cache.assoc

\* count-hits was called on the first index out of range, nsets, and failed.
C1_Witness ==
    /\ last.op = "count"
    /\ cache.nsets = 2
    /\ last.setno = cache.nsets
    /\ last.ret = -1
    /\ log = <<>>

\* C2: fill-set(s) immediately followed by count-hits(s), with no tenant
\* access in between and noise-free timing, returns assoc: every timed read
\* found its line resident, and (until the tenant touches the set again) the
\* set holds assoc lines, all of this process.
C2_FillThenCount ==
    (/\ last.op = "count"
     /\ last.ret >= 0
     /\ prev = "fill"
     /\ ~gapSame
     /\ ~gapOther
     /\ NoiseFree)
    => /\ last.ret = cache.assoc
       /\ \A i \in 1 .. Len(log) : log[i].resident
       /\ ~idleSame => Cardinality(Owned(last.setno)) = cache.assoc

\* The pair ran on a two-way set that held two lines of the tenant, and none of
\* this process, when the fill was called.
C2_Witness ==
    /\ last.op = "count"
    /\ prev = "fill"
    /\ prevForeign = 2
    /\ cache.assoc = 2
    /\ ~gapSame /\ ~gapOther /\ ~idleSame /\ ~idleOther
    /\ NoiseFree
    /\ last.ret = 2

\* C3: flush-set(s) immediately followed by count-hits(s), with no tenant
\* access in between and noise-free timing, returns 0: every timed read found
\* its line not resident, although each read loads the line it reads.
C3_FlushThenCount ==
    (/\ last.op = "count"
     /\ last.ret >= 0
     /\ prev = "flush"
     /\ ~gapSame
     /\ ~gapOther
     /\ NoiseFree)
    => /\ last.ret = 0
       /\ \A i \in 1 .. Len(log) : ~log[i].resident

\* The pair ran on a two-way set that this process owned before the flush, and
\* the two timed reads have loaded both lines again.
C3_Witness ==
    /\ last.op = "count"
    /\ prev = "flush"
    /\ prevForeign = 0
    /\ cache.assoc = 2
    /\ ~gapSame /\ ~gapOther /\ ~idleSame
    /\ NoiseFree
    /\ last.ret = 0
    /\ Cardinality(Owned(last.setno)) = 2

\* C4: fill-set(s), then tenant accesses, then count-hits(s), noise-free: when
\* the tenant touched a line of set s the count is below assoc; when it
\* touched lines of other sets only, the count is assoc.
C4_PrimeProbe ==
    (/\ last.op = "count"
     /\ last.ret >= 0
     /\ prev = "fill"
     /\ NoiseFree)
    => /\ gapSame => last.ret < cache.assoc
       /\ (gapOther /\ ~gapSame) => last.ret = cache.assoc

\* The tenant touched set s (and another set) between fill and count on a
\* two-way, two-set cache, and the count came out lower.
C4_Witness ==
    /\ last.op = "count"
    /\ prev = "fill"
    /\ gapSame
    /\ gapOther
    /\ NoiseFree
    /\ cache.assoc = 2
    /\ cache.nsets = 2
    /\ last.ret < 2

\* The three masks of a descriptor partition the 64 address bits.
Partition(c) ==
    /\ WordAnd(c.offset_mask, c.index_mask) = {}
    /\ WordAnd(c.offset_mask, c.tag_mask) = {}
    /\ WordAnd(c.index_mask, c.tag_mask) = {}
    /\ WordOr(WordOr(c.offset_mask, c.index_mask), c.tag_mask) = AllOnes

\* C5 as stated: for every geometry whose nsets is a power of two the masks
\* cache_init computes partition the address bits.
C5_AsStated == (init_ret # 1 /\ IsPow2(cache.nsets)) => Partition(cache)

\* C5, amended: for every geometry whose line_size and nsets are both powers
\* of two the masks cache_init computes are pairwise disjoint and together
\* cover every address bit.
C5_MasksPartition ==
    (init_ret # 1 /\ IsPow2(cache.nsets) /\ IsPow2(cache.line_size)) => Partition(cache)

\* cache_init ran on a line size of 2 and 4 sets: bit 0, bits 1-2, bits 3-63.
C5_Witness ==
    /\ init_ret = 0
    /\ cache.line_size = 2
    /\ cache.nsets = 4
    /\ cache.offset_mask = {0}
    /\ cache.index_mask = {1, 2}
    /\ cache.tag_mask = 3 .. 63

\* The position of the most significant one bit of a word that is not zero.
Msb(w) == CHOOSE b \in w : \A c \in w : c <= b

\* C6: dlog2 terminates for every argument, and for every argument n >= 1 it
\* returns floor(log2(n)), the position of the most significant one bit:
\* 2^ret <= n < 2^(ret+1); dlog2(1) = 0, dlog2(2) = 1, dlog2(2^k) = k.
C6_Dlog2 ==
    /\ <>(lg.pc = "done")
    /\ [](lg.pc = "done" /\ lg.arg # {} =>
            /\ lg.ret = Msb(lg.arg)
            /\ lg.arg \subseteq 0 .. 29 =>
                  /\ Pow2(lg.ret) <= FromWord(lg.arg)
                  /\ FromWord(lg.arg) < Pow2(lg.ret + 1)
            /\ lg.arg = ToWord(1) => lg.ret = 0
            /\ lg.arg = ToWord(2) => lg.ret = 1
            /\ \A e \in Bits : lg.arg = {e} => lg.ret = e)

\* dlog2(2^63) returned 63.
C6_Witness == lg.pc = "done" /\ lg.arg = {WordBits - 1} /\ lg.ret = WordBits - 1

\* C7: after calibration hit_threshold is the integer mean of the two measured
\* latencies and lies between them, hit_latency <= hit_threshold <=
\* miss_latency; hit trials of 40 and miss trials of 200 give 40, 200, 120.
C7_ThresholdBetween ==
    (init_ret = 0) =>
        /\ cache.hit_threshold = (cache.hit_latency + cache.miss_latency) \div 2
        /\ cache.hit_latency <= cache.hit_threshold
        /\ cache.hit_threshold <= cache.miss_latency
        /\ (/\ host.tHit = 40 /\ host.tMiss = 200
            /\ host.hitEvicted = 0 /\ host.missRefilled = 0)
           => /\ cache.hit_latency = 40
              /\ cache.miss_latency = 200
              /\ cache.hit_threshold = 120

\* C8: a calibration that measures hit_latency >= miss_latency makes
\* cache_init report a failure (a return value other than 0).
C8_CalibrationFailure ==
    (init_ret # 1 /\ cache.buffer # 0 /\ cache.hit_latency >= cache.miss_latency)
    => init_ret # 0

\* C9: with nsets = 0 cache_init returns a failure value, and no shift or
\* mask comes from dlog2(0).
C9_ZeroSets ==
    (init_ret # 1 /\ cache.nsets = 0) => init_ret = -1

\* C10: with line_size and nsets powers of two and the base aligned_alloc
\* returned (a multiple of size when size is a power of two), the addresses a
\* set operation on a valid index s accesses are buffer + s*line_size +
\* k*nsets*line_size for k in 0..assoc-1: assoc distinct addresses, each with
\* index field s, with pairwise distinct tag fields, each inside the buffer at
\* an offset below size (so below buffer_size); no address of another set
\* index is among them.
C10_WayAddresses ==
    (/\ last.op # "none"
     /\ last.ret >= 0
     /\ IsPow2(cache.line_size)
     /\ IsPow2(cache.nsets))
    => /\ Len(log) = cache.assoc
       /\ \A i \in 1 .. Len(log) :
            /\ log[i].addr = WayAddr(cache, last.setno, i - 1)
            /\ IndexField(cache, log[i].addr) = last.setno
            /\ log[i].addr >= cache.buffer
            /\ log[i].addr - cache.buffer < cache.size
            /\ log[i].addr - cache.buffer < cache.buffer_size
       /\ \A i, j \in 1 .. Len(log) :
            i # j => /\ log[i].addr # log[j].addr
                     /\ TagField(cache, log[i].addr) # TagField(cache, log[j].addr)
       /\ \A s \in 0 .. (cache.nsets - 1) : \A kk \in 0 .. (cache.assoc - 1) :
            s # last.setno => FirstPtr(cache, s) + kk * Stride(cache) \notin Addrs

\* fill-set ran on set 1 of a cache of 2 sets, 2 ways and 2-byte lines at
\* base 8: it read addresses 10 and 14.
C10_Witness ==
    /\ last.op = "fill"
    /\ last.ret = 0
    /\ last.setno = 1
    /\ cache.line_size = 2
    /\ cache.nsets = 2
    /\ cache.assoc = 2
    /\ cache.buffer = 8
    /\ Addrs = {10, 14}

====
